---- MODULE Spec2Model ----
(***************************************************************************)
(* Model of the tasking-manager backend excerpt:                           *)
(*   backend/services/partner_service.py  (PartnerService)                 *)
(*   backend/api/tasks/actions.py         (the task-action route handlers) *)
(*                                                                         *)
(* Python values are modelled by what the code does with them: a str is a  *)
(* sequence of characters, None is a value of its own, a dict is the       *)
(* sequence of its items in insertion order, and a dict key is kept as the *)
(* list of its "_"-separated pieces (the code only ever looks at keys      *)
(* through startswith("name_") and split("_")).  An exception message is   *)
(* kept as the list of its chunks with every "-" a chunk of its own, so    *)
(* that split("-") is computed and not assumed.                            *)
(***************************************************************************)
EXTENDS Integers, Sequences, FiniteSets, TLC

VARIABLES
    partners,   \* the partners table: id -> row
    nextId,     \* the next primary key the table hands out
    result,     \* outcome of the last PartnerService call
    input,      \* the request data of a link-derivation run (SpecLinks)
    http,       \* the last task-action request and what its handler did
    req,        \* what else the last task-action request carried
    tasks       \* the tasks table: <<project id, task id>> -> row

vars == <<partners, nextId, result, input, http, req, tasks>>

-----------------------------------------------------------------------------
(* Bounds of the model *)

MaxPartners == 2    \* rows the table ever hands an id to
MaxIdx == 6         \* highest N of the name_N / url_N keys a request carries

-----------------------------------------------------------------------------
(* Python values *)

None == [type |-> "NoneType"]
Str(s) == [type |-> "str", val |-> s]

\* bool(v) for None and str
Truthy(v) == v.type = "str" /\ v.val # <<>>

IsSpace(c) == c = " "

RECURSIVE LStrip(_)
LStrip(s) == IF s # <<>> /\ IsSpace(Head(s)) THEN LStrip(Tail(s)) ELSE s

RECURSIVE RStrip(_)
RStrip(s) ==
    IF s # <<>> /\ IsSpace(s[Len(s)]) THEN RStrip(SubSeq(s, 1, Len(s) - 1)) ELSE s

\* str.strip()
Strip(s) == RStrip(LStrip(s))

\* the decimal text of a small positive integer, as f"{i}" gives it
IdxStr(i) == <<"1", "2", "3", "4", "5", "6", "7", "8", "9">>[i]

\* dict: a sequence of items [k |-> key, v |-> value] with distinct keys
DictHas(d, k) == \E j \in 1..Len(d) : d[j].k = k
DictItem(d, k) == d[CHOOSE j \in 1..Len(d) : d[j].k = k].v
\* dict.get(k)
DictGet(d, k) == IF DictHas(d, k) THEN DictItem(d, k) ELSE None

\* str.split(sep) on a chunked string: the pieces between the separators
RECURSIVE SplitFrom(_, _, _)
SplitFrom(s, sep, cur) ==
    IF s = <<>> THEN <<cur>>
    ELSE IF Head(s) = sep THEN <<cur>> \o SplitFrom(Tail(s), sep, <<>>)
    ELSE SplitFrom(Tail(s), sep, Append(cur, Head(s)))

Split(s, sep) == SplitFrom(s, sep, <<>>)

\* json.dumps of a list of {"name":..., "url":...} objects, as a token list
RECURSIVE JsonItems(_)
JsonItems(l) ==
    IF l = <<>> THEN <<>>
    ELSE <<"{", "name", Head(l).name, "url", Head(l).url, "}">> \o JsonItems(Tail(l))

json_dumps(l) == <<"[">> \o JsonItems(l) \o <<"]">>

\* json.loads of such a token list (used to read the stored column back)
RECURSIVE JsonObjects(_)
JsonObjects(t) ==
    IF Len(t) < 6 THEN <<>>
    ELSE <<[name |-> t[3], url |-> t[5]]>> \o JsonObjects(SubSeq(t, 7, Len(t)))

json_loads(t) == JsonObjects(SubSeq(t, 2, Len(t) - 1))

-----------------------------------------------------------------------------
(* The persistence layer: backend.models.postgis.partner.Partner           *)

\* psycopg2's integrity errors that are neither of the two the service names
OtherViolations == {"ForeignKeyViolation"}

\* a partners table without the unique index on name
DbViolation_no_unique(table, id, row, other) ==
    IF row.name = None \/ row.primary_hashtag = None THEN "NotNullViolation"
    ELSE other

\* the constraint the database reports for writing row under id:
\* NOT NULL on name and primary_hashtag, then UNIQUE on name, then whatever
\* other constraint of the schema the environment says is violated
DbViolation(table, id, row, other) ==
    IF row.name = None \/ row.primary_hashtag = None THEN "NotNullViolation"
    ELSE IF \E p \in DOMAIN table : p # id /\ table[p].name = row.name
         THEN "UniqueViolation"
    ELSE other

Partner_get_by_id(table, id) == IF id \in DOMAIN table THEN table[id] ELSE None

\* Partner.create / Partner.save: the table after a committed write
Partner_write(table, id, row) ==
    [p \in DOMAIN table \cup {id} |-> IF p = id THEN row ELSE table[p]]

\* Partner.delete
Partner_delete(table, id) == [p \in DOMAIN table \ {id} |-> table[p]]

-----------------------------------------------------------------------------
(* PartnerService *)

LinkSlots == 5

NameExistsMsg == <<"NameExists", "-", "Partner name already exists">>
NullNameMsg == <<"NullName", "-", "Partner name and primary hashtag cannot be null">>

Returned(v) == [outcome |-> "return", value |-> v, exc |-> "none", msg |-> <<>>]
Raised(e, m) == [outcome |-> "raise", value |-> None, exc |-> e, msg |-> m]

\* the loop of create_partner testing "name or url"
RECURSIVE create_links_either(_, _)
create_links_either(data, i) ==
    IF i > LinkSlots THEN <<>>
    ELSE LET name == DictGet(data, <<"name", IdxStr(i)>>)
             url == DictGet(data, <<"url", IdxStr(i)>>)
         IN  (IF Truthy(name) \/ Truthy(url)
              THEN <<[name |-> name, url |-> url]>> ELSE <<>>)
             \o create_links_either(data, i + 1)

\* create_partner, lines 31-38: the loop over range(1, 6)
RECURSIVE create_links(_, _)
create_links(data, i) ==
    IF i > LinkSlots THEN <<>>
    ELSE LET name == DictGet(data, <<"name", IdxStr(i)>>)
             url == DictGet(data, <<"url", IdxStr(i)>>)
         IN  (IF Truthy(name) /\ Truthy(url)
              THEN <<[name |-> name, url |-> url]>> ELSE <<>>)
             \o create_links(data, i + 1)

\* create_partner, lines 39-50: the Partner object built from the data
create_row(data) ==
    [name |-> DictGet(data, <<"name">>),
     primary_hashtag |-> DictGet(data, <<"primary", "hashtag">>),
     website_links |-> json_dumps(create_links(data, 1))]

\* create_partner's handler with the two isinstance tests answering each other's error
create_except_swapped(orig) ==
    IF orig = "UniqueViolation" THEN Raised("ValueError", NullNameMsg)
    ELSE IF orig = "NotNullViolation" THEN Raised("ValueError", NameExistsMsg)
    ELSE Returned(None)

\* create_partner, lines 55-62: the handler of IntegrityError
create_except(orig) ==
    IF orig = "UniqueViolation" THEN Raised("ValueError", NameExistsMsg)
    ELSE IF orig = "NotNullViolation" THEN Raised("ValueError", NullNameMsg)
    ELSE Returned(None)

\* update_partner, lines 78-83: value.strip() is reached with value None
update_links_fails(data) ==
    \E j \in 1..Len(data) :
        /\ Len(data[j].k) >= 2 /\ data[j].k[1] = "name"
        /\ DictHas(data, <<"url", data[j].k[2]>>)
        /\ data[j].v = None

\* update_partner, lines 77-83: the loop over data.items(), from item j on
RECURSIVE update_links(_, _)
update_links(data, j) ==
    IF j > Len(data) THEN <<>>
    ELSE LET key == data[j].k
             value == data[j].v
             url_key == <<"url", key[2]>>
         IN  (IF Len(key) >= 2 /\ key[1] = "name"
                 /\ DictHas(data, url_key) /\ Strip(value.val) # <<>>
              THEN <<[name |-> value, url |-> DictItem(data, url_key)]>>
              ELSE <<>>)
             \o update_links(data, j + 1)

\* hasattr(partner, key) for a Partner object
PartnerColumns == {<<"name">>, <<"primary", "hashtag">>, <<"website", "links">>}

partner_setattr(row, key, value) ==
    IF key = <<"name">> THEN [row EXCEPT !.name = value]
    ELSE IF key = <<"primary", "hashtag">> THEN [row EXCEPT !.primary_hashtag = value]
    ELSE [row EXCEPT !.website_links = value]

\* update_partner, lines 84-86: the setattr loop over data.items(), from item j on
RECURSIVE update_attrs(_, _, _)
update_attrs(row, data, j) ==
    IF j > Len(data) THEN row
    ELSE update_attrs(
            IF data[j].k \in PartnerColumns
            THEN partner_setattr(row, data[j].k, data[j].v) ELSE row,
            data, j + 1)

\* update_partner adding the derived links to the ones already stored
update_row_appends(row, data) ==
    [update_attrs(row, data, 1) EXCEPT
        !.website_links = json_dumps(json_loads(row.website_links) \o update_links(data, 1))]

\* update_partner, lines 84-87: the partner object handed to save()
update_row(row, data) ==
    [update_attrs(row, data, 1) EXCEPT !.website_links = json_dumps(update_links(data, 1))]

\* update_partner's handler raising the not-null error without testing e.orig
update_except_untested(orig) == Raised("ValueError", NullNameMsg)

\* update_partner, lines 91-98: the handler of IntegrityError
update_except(orig) ==
    IF orig = "UniqueViolation" THEN Raised("ValueError", NameExistsMsg)
    ELSE IF orig = "NotNullViolation" THEN Raised("ValueError", NullNameMsg)
    ELSE Returned(None)

NoCall == [op |-> "none", id |-> 0, data |-> <<>>, violation |-> "none",
           outcome |-> "none", value |-> None, exc |-> "none", msg |-> <<>>]

Call(op, id, data, violation, r) ==
    [op |-> op, id |-> id, data |-> data, violation |-> violation,
     outcome |-> r.outcome, value |-> r.value, exc |-> r.exc, msg |-> r.msg]

\* create_partner keeping the row of a rejected write when the name is new
CreatePartner_keeps_rejected(data, other) ==
    /\ nextId <= MaxPartners
    /\ LET row == create_row(data)
           v == DbViolation(partners, nextId, row, other)
       IN  IF v \in {"none", "NotNullViolation"}
           THEN /\ partners' = Partner_write(partners, nextId, row)
                /\ nextId' = nextId + 1
                /\ result' = Call("create_partner", IF v = "none" THEN nextId ELSE 0, data, v,
                                  IF v = "none" THEN Returned(nextId) ELSE create_except(v))
           ELSE /\ UNCHANGED <<partners, nextId>>
                /\ result' = Call("create_partner", 0, data, v, create_except(v))
    /\ UNCHANGED <<input, http, req, tasks>>

\* PartnerService.create_partner(data); other is the verdict of the schema's
\* remaining constraints on this write
CreatePartner(data, other) ==
    /\ nextId <= MaxPartners
    /\ LET row == create_row(data)
           v == DbViolation(partners, nextId, row, other)
       IN  IF v = "none"
           THEN /\ partners' = Partner_write(partners, nextId, row)
                /\ nextId' = nextId + 1
                /\ result' = Call("create_partner", nextId, data, v, Returned(nextId))
           ELSE /\ UNCHANGED <<partners, nextId>>
                /\ result' = Call("create_partner", 0, data, v, create_except(v))
    /\ UNCHANGED <<input, http, req, tasks>>

\* PartnerService.update_partner(partner_id, data)
UpdatePartner(id, data, other) ==
    /\ LET partner == Partner_get_by_id(partners, id)
       IN  IF update_links_fails(data) \/ partner = None
           THEN /\ UNCHANGED partners
                /\ result' = Call("update_partner", id, data, "none",
                                  Raised("AttributeError", <<>>))
           ELSE LET row == update_row(partner, data)
                    v == DbViolation(partners, id, row, other)
                IN  IF v = "none"
                    THEN /\ partners' = Partner_write(partners, id, row)
                         /\ result' = Call("update_partner", id, data, v, Returned(id))
                    ELSE /\ UNCHANGED partners
                         /\ result' = Call("update_partner", id, data, v, update_except(v))
    /\ UNCHANGED <<nextId, input, http, req, tasks>>

\* delete_partner answering 200 whether or not it found the partner
DeletePartner_always_200(id) ==
    /\ partners' = Partner_delete(partners, id)
    /\ result' = Call("delete_partner", id, <<>>, "none", Returned(<<"Success", 200>>))
    /\ UNCHANGED <<nextId, input, http, req, tasks>>

\* PartnerService.delete_partner(partner_id)
DeletePartner(id) ==
    /\ LET partner == Partner_get_by_id(partners, id)
       IN  IF partner # None
           THEN /\ partners' = Partner_delete(partners, id)
                /\ result' = Call("delete_partner", id, <<>>, "none",
                                  Returned(<<"Success", 200>>))
           ELSE /\ UNCHANGED partners
                /\ result' = Call("delete_partner", id, <<>>, "none",
                                  Returned(<<"Error", 400>>))
    /\ UNCHANGED <<nextId, input, http, req, tasks>>

-----------------------------------------------------------------------------
(* backend/api/tasks/actions.py: the task-action handlers.                 *)
(* A request is handled in one step.  http records the request, the calls  *)
(* the handler made on the service layer, in order, and how it ended: a    *)
(* response, or an exception that left the handler.  What the services do  *)
(* is an input of the step: the exception the delegated operation raises   *)
(* (or "ok") and, for a domain error, its message.                         *)

Users == {"alice", "bob"}
Projects == {1, 2}          \* the projects that exist
ProjectIds == {1, 2, 3}     \* the project ids a request may name

\* messages of the domain errors the services raise, as str(e) gives them
Messages ==
    { <<"InvalidTaskState", "-", "Task in invalid state for mapping">>,
      <<"LockedByAnotherUser", "-", "Task is locked by another user ", "-", " try later">> }

MappingOutcomes == {"ok", "MappingServiceError", "UserLicenseError", "NotFound", "Exception"}
ValidatorOutcomes == {"ok", "ValidatorServiceError", "UserLicenseError", "NotFound", "Exception"}
SplitOutcomes == {"ok", "SplitServiceError", "InvalidGeoJson", "NotFound", "Exception"}
BulkOutcomes == {"ok", "Exception"}

NoRequest == [handler |-> "none", user |-> "", project |-> 0, dto |-> "none", calls |-> <<>>,
              kind |-> "none", status |-> 0, error |-> <<>>, subcode |-> <<>>]

\* a call on the service layer: the operation, the acting user handed to it
\* ("" when it takes none) and what it returned or raised
CallOf(fn, by, ret) == [fn |-> fn, by |-> by, ret |-> ret]

\* return body, status
Response(status, error, subcode) ==
    [kind |-> "response", status |-> status, error |-> error, subcode |-> subcode]
\* a success response: the body carries no Error and no SubCode
Success(status) == Response(status, <<>>, <<>>)
\* an exception the handler does not catch
Uncaught(exc) == [kind |-> "raise", status |-> 0, error |-> <<exc>>, subcode |-> <<>>]

\* dto: "ok" when building and validating the DTO raised nothing, "none" for a
\* handler that builds no DTO, otherwise where it raised ("failed", or for
\* reset-by-user the step)
Handled(handler, user, project_id, dto, calls, r) ==
    [handler |-> handler, user |-> user, project |-> project_id, dto |-> dto,
     calls |-> calls,
     kind |-> r.kind, status |-> r.status, error |-> r.error, subcode |-> r.subcode]

InvalidData(error) == Response(400, <<error>>, <<"InvalidData">>)

\* {"Error": str(e).split("-")[1], "SubCode": str(e).split("-")[0]}, 403
DomainError(msg) ==
    LET parts == Split(msg, "-")
    IN  IF Len(parts) < 2 THEN Uncaught("IndexError")
        ELSE Response(403, parts[2], parts[1])

UserLicense == Response(409, <<"User not accepted license terms">>, <<"UserLicenseError">>)

PermissionDenied ==
    Response(403, <<"User is not a manager of the project">>, <<"UserPermissionError">>)

\* ProjectService.exists(project_id): raises NotFound for a project that is not there
ProjectService_exists(project_id) == project_id \in Projects

ExistsCall(project_id) ==
    CallOf("ProjectService.exists", "",
           IF ProjectService_exists(project_id) THEN "ok" ELSE "NotFound")

\* the user id a request body may carry ("": it carries none)
BodyUsers == Users \cup {""}

\* the DTO built from the body after user_id was set: the body's user id wins
dto_user_id_body_last(body_user, authenticated) ==
    LET dto == [user_id |-> authenticated]
    IN  IF body_user = "" THEN dto.user_id ELSE [dto EXCEPT !.user_id = body_user].user_id

\* XDTO(request.json()) followed by dto.user_id = request.user.display_name:
\* the user_id of the DTO handed to the service
dto_user_id(body_user, authenticated) ==
    LET dto == [user_id |-> body_user]
    IN  [dto EXCEPT !.user_id = authenticated].user_id

\* lock-for-mapping with one except clause for both of the service's errors
LockForMapping_one_clause(user, project_id, dto_ok, out, msg) ==
    /\ http' =
        IF ~dto_ok
        THEN Handled("lock-for-mapping", user, project_id, "failed", <<>>,
                     InvalidData("Unable to lock task"))
        ELSE IF ~ProjectService_exists(project_id)
        THEN Handled("lock-for-mapping", user, project_id, "ok", <<ExistsCall(project_id)>>,
                     Uncaught("NotFound"))
        ELSE Handled("lock-for-mapping", user, project_id, "ok",
                     <<ExistsCall(project_id),
                       CallOf("MappingService.lock_task_for_mapping", user, out)>>,
                     CASE out = "ok" -> Success(200)
                       [] out \in {"MappingServiceError", "UserLicenseError"} -> DomainError(msg)
                       [] OTHER -> Uncaught(out))
    /\ UNCHANGED <<partners, nextId, result, input>>

\* POST {project_id}/tasks/actions/lock-for-mapping/{task_id}/
LockForMapping(user, project_id, dto_ok, out, msg) ==
    /\ http' =
        IF ~dto_ok
        THEN Handled("lock-for-mapping", user, project_id, "failed", <<>>,
                     InvalidData("Unable to lock task"))
        ELSE IF ~ProjectService_exists(project_id)
        THEN Handled("lock-for-mapping", user, project_id, "ok", <<ExistsCall(project_id)>>,
                     Uncaught("NotFound"))
        ELSE Handled("lock-for-mapping", user, project_id, "ok",
                     <<ExistsCall(project_id), CallOf("MappingService.lock_task_for_mapping", user, out)>>,
                     CASE out = "ok" -> Success(200)
                       [] out = "MappingServiceError" -> DomainError(msg)
                       [] out = "UserLicenseError" -> UserLicense
                       [] OTHER -> Uncaught(out))
    /\ UNCHANGED <<partners, nextId, result, input>>

\* POST {project_id}/tasks/actions/stop-mapping/{task_id}/
StopMapping(user, project_id, dto_ok, out, msg, body_user) ==
    /\ http' =
        IF ~dto_ok
        THEN Handled("stop-mapping", user, project_id, "failed", <<>>,
                     InvalidData("Task unlock failed"))
        ELSE IF ~ProjectService_exists(project_id)
        THEN Handled("stop-mapping", user, project_id, "ok", <<ExistsCall(project_id)>>,
                     Uncaught("NotFound"))
        ELSE Handled("stop-mapping", user, project_id, "ok",
                     <<ExistsCall(project_id), CallOf("MappingService.stop_mapping_task",
                              dto_user_id(body_user, user), out)>>,
                     CASE out = "ok" -> Success(200)
                       [] out = "MappingServiceError" -> DomainError(msg)
                       [] OTHER -> Uncaught(out))
    /\ UNCHANGED <<partners, nextId, result, input>>

MapperLevelCall(user) == CallOf("UserService.check_and_update_mapper_level", user, "ok")

\* unlock-after-mapping refreshing the mapper level on the success path only
UnlockAfterMapping_no_finally(user, project_id, dto_ok, out, msg, body_user) ==
    /\ http' =
        IF ~dto_ok
        THEN Handled("unlock-after-mapping", user, project_id, "failed", <<>>,
                     InvalidData("Task unlock failed"))
        ELSE IF ~ProjectService_exists(project_id)
        THEN Handled("unlock-after-mapping", user, project_id, "ok",
                     <<ExistsCall(project_id)>>,
                     Response(404, <<"NotFound">>, <<"NOT_FOUND">>))
        ELSE Handled("unlock-after-mapping", user, project_id, "ok",
                     <<ExistsCall(project_id),
                       CallOf("MappingService.unlock_task_after_mapping",
                              dto_user_id(body_user, user), out)>>
                       \o (IF out = "ok" THEN <<MapperLevelCall(user)>> ELSE <<>>),
                     CASE out = "ok" -> Success(200)
                       [] out = "MappingServiceError" -> DomainError(msg)
                       [] out = "NotFound" -> Response(404, <<"NotFound">>, <<"NOT_FOUND">>)
                       [] OTHER -> Response(500, <<"Task unlock failed">>,
                                            <<"InternalServerError">>))
    /\ UNCHANGED <<partners, nextId, result, input>>

\* POST {project_id}/tasks/actions/unlock-after-mapping/{task_id}/
UnlockAfterMapping(user, project_id, dto_ok, out, msg, body_user) ==
    /\ http' =
        IF ~dto_ok
        THEN Handled("unlock-after-mapping", user, project_id, "failed", <<>>,
                     InvalidData("Task unlock failed"))
        ELSE IF ~ProjectService_exists(project_id)
        THEN Handled("unlock-after-mapping", user, project_id, "ok",
                     <<ExistsCall(project_id), MapperLevelCall(user)>>,
                     Response(404, <<"NotFound">>, <<"NOT_FOUND">>))
        ELSE Handled("unlock-after-mapping", user, project_id, "ok",
                     <<ExistsCall(project_id), CallOf("MappingService.unlock_task_after_mapping",
                              dto_user_id(body_user, user), out),
                       MapperLevelCall(user)>>,
                     CASE out = "ok" -> Success(200)
                       [] out = "MappingServiceError" -> DomainError(msg)
                       [] out = "NotFound" -> Response(404, <<"NotFound">>, <<"NOT_FOUND">>)
                       [] OTHER -> Response(500, <<"Task unlock failed">>,
                                            <<"InternalServerError">>))
    /\ UNCHANGED <<partners, nextId, result, input>>

\* POST {project_id}/tasks/actions/undo-last-action/{task_id}/
UndoLastAction(user, project_id, out, msg) ==
    /\ http' =
        IF ~ProjectService_exists(project_id)
        THEN Handled("undo-last-action", user, project_id, "none", <<ExistsCall(project_id)>>,
                     Uncaught("NotFound"))
        ELSE Handled("undo-last-action", user, project_id, "none",
                     <<ExistsCall(project_id), CallOf("MappingService.undo_mapping", user, out)>>,
                     CASE out = "ok" -> Success(200)
                       [] out = "MappingServiceError" -> DomainError(msg)
                       [] OTHER -> Uncaught(out))
    /\ UNCHANGED <<partners, nextId, result, input>>

\* lock-for-validation answering the service's refusal like a success
LockForValidation_refusal_ignored(user, project_id, dto_ok, out, msg, body_user) ==
    /\ http' =
        IF ~dto_ok
        THEN Handled("lock-for-validation", user, project_id, "failed", <<>>,
                     InvalidData("Unable to lock task"))
        ELSE IF ~ProjectService_exists(project_id)
        THEN Handled("lock-for-validation", user, project_id, "ok", <<ExistsCall(project_id)>>,
                     Uncaught("NotFound"))
        ELSE Handled("lock-for-validation", user, project_id, "ok",
                     <<ExistsCall(project_id),
                       CallOf("ValidatorService.lock_tasks_for_validation",
                              dto_user_id(body_user, user), out)>>,
                     CASE out \in {"ok", "ValidatorServiceError"} -> Success(200)
                       [] out = "UserLicenseError" -> UserLicense
                       [] OTHER -> Uncaught(out))
    /\ UNCHANGED <<partners, nextId, result, input>>

\* POST {project_id}/tasks/actions/lock-for-validation/
LockForValidation(user, project_id, dto_ok, out, msg, body_user) ==
    /\ http' =
        IF ~dto_ok
        THEN Handled("lock-for-validation", user, project_id, "failed", <<>>,
                     InvalidData("Unable to lock task"))
        ELSE IF ~ProjectService_exists(project_id)
        THEN Handled("lock-for-validation", user, project_id, "ok", <<ExistsCall(project_id)>>,
                     Uncaught("NotFound"))
        ELSE Handled("lock-for-validation", user, project_id, "ok",
                     <<ExistsCall(project_id), CallOf("ValidatorService.lock_tasks_for_validation",
                              dto_user_id(body_user, user), out)>>,
                     CASE out = "ok" -> Success(200)
                       [] out = "ValidatorServiceError" -> DomainError(msg)
                       [] out = "UserLicenseError" -> UserLicense
                       [] OTHER -> Uncaught(out))
    /\ UNCHANGED <<partners, nextId, result, input>>

\* stop-validation logging the DTO error and carrying on
StopValidation_no_return(user, project_id, dto_ok, out, msg, body_user) ==
    /\ http' =
        IF ~ProjectService_exists(project_id)
        THEN Handled("stop-validation", user, project_id,
                     IF dto_ok THEN "ok" ELSE "failed", <<ExistsCall(project_id)>>,
                     Uncaught("NotFound"))
        ELSE Handled("stop-validation", user, project_id,
                     IF dto_ok THEN "ok" ELSE "failed",
                     <<ExistsCall(project_id),
                       CallOf("ValidatorService.stop_validating_tasks",
                              dto_user_id(body_user, user), out)>>,
                     CASE out = "ok" -> Success(200)
                       [] out = "ValidatorServiceError" -> DomainError(msg)
                       [] OTHER -> Uncaught(out))
    /\ UNCHANGED <<partners, nextId, result, input>>

\* POST {project_id}/tasks/actions/stop-validation/
StopValidation(user, project_id, dto_ok, out, msg, body_user) ==
    /\ http' =
        IF ~dto_ok
        THEN Handled("stop-validation", user, project_id, "failed", <<>>,
                     InvalidData("Task unlock failed"))
        ELSE IF ~ProjectService_exists(project_id)
        THEN Handled("stop-validation", user, project_id, "ok", <<ExistsCall(project_id)>>,
                     Uncaught("NotFound"))
        ELSE Handled("stop-validation", user, project_id, "ok",
                     <<ExistsCall(project_id), CallOf("ValidatorService.stop_validating_tasks",
                              dto_user_id(body_user, user), out)>>,
                     CASE out = "ok" -> Success(200)
                       [] out = "ValidatorServiceError" -> DomainError(msg)
                       [] OTHER -> Uncaught(out))
    /\ UNCHANGED <<partners, nextId, result, input>>

\* POST {project_id}/tasks/actions/unlock-after-validation/
UnlockAfterValidation(user, project_id, dto_ok, out, msg, body_user) ==
    /\ http' =
        IF ~dto_ok
        THEN Handled("unlock-after-validation", user, project_id, "failed", <<>>,
                     InvalidData("Task unlock failed"))
        ELSE IF ~ProjectService_exists(project_id)
        THEN Handled("unlock-after-validation", user, project_id, "ok", <<ExistsCall(project_id)>>,
                     Uncaught("NotFound"))
        ELSE Handled("unlock-after-validation", user, project_id, "ok",
                     <<ExistsCall(project_id), CallOf("ValidatorService.unlock_tasks_after_validation",
                              dto_user_id(body_user, user), out)>>,
                     CASE out = "ok" -> Success(200)
                       [] out = "ValidatorServiceError" -> DomainError(msg)
                       [] OTHER -> Uncaught(out))
    /\ UNCHANGED <<partners, nextId, result, input>>

\* ProjectAdminService.is_user_action_permitted_on_project(user, project_id)
PermissionCall(user, permitted) ==
    CallOf("ProjectAdminService.is_user_action_permitted_on_project", user,
           IF permitted THEN "True" ELSE "False")

\* map-all calling the service before it looks at the permission
MapAll_service_first(user, project_id, permitted, out) ==
    /\ http' =
        Handled("map-all", user, project_id, "none",
                <<CallOf("MappingService.map_all_tasks", user, out),
                  PermissionCall(user, permitted)>>,
                IF ~permitted THEN PermissionDenied
                ELSE IF out = "ok" THEN Success(200) ELSE Uncaught(out))
    /\ UNCHANGED <<partners, nextId, result, input>>

\* POST {project_id}/tasks/actions/map-all/
MapAll(user, project_id, permitted, out) ==
    /\ http' =
        IF ~permitted
        THEN Handled("map-all", user, project_id, "none", <<PermissionCall(user, permitted)>>,
                     PermissionDenied)
        ELSE Handled("map-all", user, project_id, "none",
                     <<PermissionCall(user, permitted), CallOf("MappingService.map_all_tasks", user, out)>>,
                     IF out = "ok" THEN Success(200) ELSE Uncaught(out))
    /\ UNCHANGED <<partners, nextId, result, input>>

\* POST {project_id}/tasks/actions/validate-all/
ValidateAll(user, project_id, permitted, out) ==
    /\ http' =
        IF ~permitted
        THEN Handled("validate-all", user, project_id, "none", <<PermissionCall(user, permitted)>>,
                     PermissionDenied)
        ELSE Handled("validate-all", user, project_id, "none",
                     <<PermissionCall(user, permitted), CallOf("ValidatorService.validate_all_tasks", user, out)>>,
                     IF out = "ok" THEN Success(200) ELSE Uncaught(out))
    /\ UNCHANGED <<partners, nextId, result, input>>

\* POST {project_id}/tasks/actions/invalidate-all/
InvalidateAll(user, project_id, permitted, out) ==
    /\ http' =
        IF ~permitted
        THEN Handled("invalidate-all", user, project_id, "none", <<PermissionCall(user, permitted)>>,
                     PermissionDenied)
        ELSE Handled("invalidate-all", user, project_id, "none",
                     <<PermissionCall(user, permitted), CallOf("ValidatorService.invalidate_all_tasks", user, out)>>,
                     IF out = "ok" THEN Success(200) ELSE Uncaught(out))
    /\ UNCHANGED <<partners, nextId, result, input>>

\* reset-all-badimagery delegating to the operation of reset-all
ResetAllBadImagery_resets_all(user, project_id, permitted, out) ==
    /\ http' =
        IF ~permitted
        THEN Handled("reset-all-badimagery", user, project_id, "none",
                     <<PermissionCall(user, permitted)>>, PermissionDenied)
        ELSE Handled("reset-all-badimagery", user, project_id, "none",
                     <<PermissionCall(user, permitted),
                       CallOf("ProjectAdminService.reset_all_tasks", user, out)>>,
                     IF out = "ok" THEN Success(200) ELSE Uncaught(out))
    /\ UNCHANGED <<partners, nextId, result, input>>

\* POST {project_id}/tasks/actions/reset-all-badimagery/
ResetAllBadImagery(user, project_id, permitted, out) ==
    /\ http' =
        IF ~permitted
        THEN Handled("reset-all-badimagery", user, project_id, "none", <<PermissionCall(user, permitted)>>,
                     PermissionDenied)
        ELSE Handled("reset-all-badimagery", user, project_id, "none",
                     <<PermissionCall(user, permitted), CallOf("MappingService.reset_all_badimagery", user, out)>>,
                     IF out = "ok" THEN Success(200) ELSE Uncaught(out))
    /\ UNCHANGED <<partners, nextId, result, input>>

\* POST {project_id}/tasks/actions/reset-all/
ResetAll(user, project_id, permitted, out) ==
    /\ http' =
        IF ~permitted
        THEN Handled("reset-all", user, project_id, "none", <<PermissionCall(user, permitted)>>,
                     PermissionDenied)
        ELSE Handled("reset-all", user, project_id, "none",
                     <<PermissionCall(user, permitted), CallOf("ProjectAdminService.reset_all_tasks", user, out)>>,
                     IF out = "ok" THEN Success(200) ELSE Uncaught(out))
    /\ UNCHANGED <<partners, nextId, result, input>>

\* POST {project_id}/tasks/{task_id}/actions/split/
SplitTask(user, project_id, dto_ok, out, msg) ==
    /\ http' =
        IF ~dto_ok
        THEN Handled("split", user, project_id, "failed", <<>>,
                     InvalidData("Unable to split task"))
        ELSE IF ~ProjectService_exists(project_id)
        THEN Handled("split", user, project_id, "ok", <<ExistsCall(project_id)>>,
                     Uncaught("NotFound"))
        ELSE Handled("split", user, project_id, "ok",
                     <<ExistsCall(project_id), CallOf("SplitService.split_task", user, out)>>,
                     CASE out = "ok" -> Success(200)
                       [] out = "SplitServiceError" -> DomainError(msg)
                       [] out = "InvalidGeoJson" -> DomainError(msg)
                       [] OTHER -> Uncaught(out))
    /\ UNCHANGED <<partners, nextId, result, input>>

\* POST {project_id}/tasks/actions/extend/
ExtendLock(user, project_id, dto_ok, out, msg, body_user) ==
    /\ http' =
        IF ~dto_ok
        THEN Handled("extend", user, project_id, "failed", <<>>,
                     InvalidData("Unable to extend lock time"))
        ELSE IF ~ProjectService_exists(project_id)
        THEN Handled("extend", user, project_id, "ok", <<ExistsCall(project_id)>>,
                     Uncaught("NotFound"))
        ELSE Handled("extend", user, project_id, "ok",
                     <<ExistsCall(project_id), CallOf("MappingService.extend_task_lock_time",
                              dto_user_id(body_user, user), out)>>,
                     CASE out = "ok" -> Success(200)
                       [] out = "MappingServiceError" -> DomainError(msg)
                       [] OTHER -> Uncaught(out))
    /\ UNCHANGED <<partners, nextId, result, input>>

\* how far the construction of reset-by-user's DTO gets: it fails before the
\* user is looked up, in the lookup, in validate(), or not at all
RevertDtoSteps == {"construct", "lookup", "validate", "ok"}

\* POST {project_id}/tasks/actions/reset-by-user/
ResetByUser(user, project_id, dto, out, msg) ==
    /\ http' =
        IF dto = "construct"
        THEN Handled("reset-by-user", user, project_id, dto, <<>>,
                     InvalidData("Unable to revert tasks"))
        ELSE IF dto # "ok"
        THEN Handled("reset-by-user", user, project_id, dto,
                     <<CallOf("UserService.get_user_by_username", "",
                              IF dto = "lookup" THEN "NotFound" ELSE "ok")>>,
                     InvalidData("Unable to revert tasks"))
        ELSE Handled("reset-by-user", user, project_id, dto,
                     <<CallOf("UserService.get_user_by_username", "", "ok"),
                       CallOf("ValidatorService.revert_user_tasks", user, out)>>,
                     CASE out = "ok" -> Success(200)
                       [] out = "ValidatorServiceError" -> DomainError(msg)
                       [] OTHER -> Uncaught(out))
    /\ UNCHANGED <<partners, nextId, result, input>>

-----------------------------------------------------------------------------
(* The tasks table and the rest of a task-action request *)

NoTasks == <<>>

NoDetails == [tasks |-> {}, body_user |-> "", msg |-> <<>>]

\* the details of a request: the tasks it names, the user id its body carries
\* and str(e) of the domain error its delegated operation raises, if it
\* raises one
Details(ts, b, m) == [tasks |-> ts, body_user |-> b, msg |-> m]

\* a request handled without touching the tasks table
Carried(ts, b, m) ==
    /\ req' = Details(ts, b, m)
    /\ UNCHANGED tasks

\* the tasks of the two projects
TaskKeys == {<<1, 1>>, <<1, 2>>, <<2, 1>>}

TaskRow(status, locked_by) == [status |-> status, locked_by |-> locked_by]

\* the ids of the tasks of project p
TasksOf(p) == {k[2] : k \in {x \in TaskKeys : x[1] = p}}

AllReady == [k \in TaskKeys |-> TaskRow("READY", "")]

LockedStatuses == {"LOCKED_FOR_MAPPING", "LOCKED_FOR_VALIDATION"}

Ok(tbl) == [out |-> "ok", msg |-> <<>>, tasks |-> tbl]
Fails(exc, msg, tbl) == [out |-> exc, msg |-> msg, tasks |-> tbl]

\* MappingService.lock_task_for_mapping: READY or INVALIDATED -> LOCKED_FOR_MAPPING,
\* held by the user; a task in any other state is refused
MappingService_lock_task_for_mapping(tbl, user, p, t) ==
    IF tbl[<<p, t>>].status \notin {"READY", "INVALIDATED"}
    THEN Fails("MappingServiceError",
               <<"InvalidTaskState", "-", "Task in invalid state for mapping">>, tbl)
    ELSE Ok([tbl EXCEPT ![<<p, t>>] = TaskRow("LOCKED_FOR_MAPPING", user)])

\* MappingService.unlock_task_after_mapping: the holder of the mapping lock
\* releases it and supplies the new status
MappingService_unlock_task_after_mapping(tbl, user, p, t, status) ==
    IF tbl[<<p, t>>].status # "LOCKED_FOR_MAPPING"
    THEN Fails("MappingServiceError",
               <<"LockNotHeld", "-", "Status must be LOCKED_FOR_MAPPING to unlock">>, tbl)
    ELSE IF tbl[<<p, t>>].locked_by # user
    THEN Fails("MappingServiceError",
               <<"TaskNotOwned", "-", "Attempting to unlock a task owned by another user">>, tbl)
    ELSE Ok([tbl EXCEPT ![<<p, t>>] = TaskRow(status, "")])

\* ValidatorService.lock_tasks_for_validation: all the named tasks, or none
ValidatorService_lock_tasks_for_validation(tbl, user, p, ts) ==
    IF \E t \in ts : tbl[<<p, t>>].status \notin {"MAPPED", "VALIDATED", "BADIMAGERY"}
    THEN Fails("ValidatorServiceError",
               <<"NotReadyForValidation", "-", "Task is not MAPPED, BADIMAGERY or VALIDATED">>,
               tbl)
    ELSE Ok([k \in DOMAIN tbl |->
                IF k[1] = p /\ k[2] \in ts THEN TaskRow("LOCKED_FOR_VALIDATION", user)
                ELSE tbl[k]])

\* MappingService.reset_all_badimagery: the project's BADIMAGERY tasks become READY
MappingService_reset_all_badimagery(tbl, p, user) ==
    Ok([k \in DOMAIN tbl |->
            IF k[1] = p /\ tbl[k].status = "BADIMAGERY" THEN TaskRow("READY", "")
            ELSE tbl[k]])

\* ProjectAdminService.reset_all_tasks: every unlocked task of the project becomes READY
ProjectAdminService_reset_all_tasks(tbl, p, user) ==
    Ok([k \in DOMAIN tbl |->
            IF k[1] = p /\ tbl[k].status \notin LockedStatuses THEN TaskRow("READY", "")
            ELSE tbl[k]])

\* the tasks table after one call of a handler on the service layer
TaskEffect(call, tbl, p, ts, status) ==
    CASE call.fn = "MappingService.lock_task_for_mapping" ->
            MappingService_lock_task_for_mapping(tbl, call.by, p, CHOOSE t \in ts : TRUE).tasks
      [] call.fn = "MappingService.unlock_task_after_mapping" ->
            MappingService_unlock_task_after_mapping(tbl, call.by, p, CHOOSE t \in ts : TRUE,
                                                     status).tasks
      [] call.fn = "ValidatorService.lock_tasks_for_validation" ->
            ValidatorService_lock_tasks_for_validation(tbl, call.by, p, ts).tasks
      [] call.fn = "MappingService.reset_all_badimagery" ->
            MappingService_reset_all_badimagery(tbl, p, call.by).tasks
      [] call.fn = "ProjectAdminService.reset_all_tasks" ->
            ProjectAdminService_reset_all_tasks(tbl, p, call.by).tasks
      [] OTHER -> tbl

\* the tasks table after the calls a handler made, in order
RECURSIVE TaskEffects(_, _, _, _, _)
TaskEffects(calls, tbl, p, ts, status) ==
    IF calls = <<>> THEN tbl
    ELSE TaskEffects(Tail(calls), TaskEffect(Head(calls), tbl, p, ts, status), p, ts, status)

\* a request handled on the tasks table
OnTasks(p, ts, b, m, status) ==
    /\ req' = Details(ts, b, m)
    /\ tasks' = TaskEffects(http'.calls, tasks, p, ts, status)

-----------------------------------------------------------------------------
(* Request data *)

Absent == [type |-> "absent"]
Item(k, v) == [k |-> k, v |-> v]
Field(k, v) == IF v = Absent THEN <<>> ELSE <<Item(k, v)>>

NameA == Str(<<"A">>)
NameB == Str(<<"B">>)
Hashtag == Str(<<"#", "h">>)

GoodName(i) == Str(<<"n", IdxStr(i)>>)
GoodUrl(i) == Str(<<"u", IdxStr(i)>>)
GoodPair(i) == <<Item(<<"name", IdxStr(i)>>, GoodName(i)), Item(<<"url", IdxStr(i)>>, GoodUrl(i))>>

\* the ways a name_i / url_i pair can be incomplete
Defects == {"no url", "no name", "empty name", "blank name", "empty url",
            "null name", "null url"}

DefectPair(i, kind) ==
    CASE kind = "no url" -> <<Item(<<"name", IdxStr(i)>>, GoodName(i))>>
      [] kind = "no name" -> <<Item(<<"url", IdxStr(i)>>, GoodUrl(i))>>
      [] kind = "empty name" ->
            <<Item(<<"name", IdxStr(i)>>, Str(<<>>)), Item(<<"url", IdxStr(i)>>, GoodUrl(i))>>
      [] kind = "blank name" ->
            <<Item(<<"name", IdxStr(i)>>, Str(<<" ">>)), Item(<<"url", IdxStr(i)>>, GoodUrl(i))>>
      [] kind = "empty url" ->
            <<Item(<<"name", IdxStr(i)>>, GoodName(i)), Item(<<"url", IdxStr(i)>>, Str(<<>>))>>
      [] kind = "null name" ->
            <<Item(<<"name", IdxStr(i)>>, None), Item(<<"url", IdxStr(i)>>, GoodUrl(i))>>
      [] kind = "null url" ->
            <<Item(<<"name", IdxStr(i)>>, GoodName(i)), Item(<<"url", IdxStr(i)>>, None)>>

\* the link keys of a request: complete pairs at the indices of good, one
\* incomplete pair of the given kind at index bad (0: none), in index order
RECURSIVE LinkItems(_, _, _, _)
LinkItems(good, bad, kind, i) ==
    IF i > MaxIdx THEN <<>>
    ELSE (IF i = bad THEN DefectPair(i, kind)
          ELSE IF i \in good THEN GoodPair(i) ELSE <<>>)
         \o LinkItems(good, bad, kind, i + 1)

RECURSIVE Reverse(_)
Reverse(q) == IF q = <<>> THEN <<>> ELSE Append(Reverse(Tail(q)), Head(q))

\* the requests of the link-derivation runs: a name, a hashtag and link keys,
\* the link keys in ascending or in descending order
WideData ==
    { <<Item(<<"name">>, NameA), Item(<<"primary", "hashtag">>, Hashtag)>>
        \o (IF rev THEN Reverse(LinkItems(good, bk[1], bk[2], 1))
            ELSE LinkItems(good, bk[1], bk[2], 1)) :
        good \in SUBSET (1..MaxIdx),
        bk \in ({0} \X {"no url"}) \cup ((1..MaxIdx) \X Defects),
        rev \in BOOLEAN }

\* the requests of the partner service runs
SmallLinks == { <<>>, GoodPair(1), DefectPair(2, "empty url") }

\* the requests of a second update in the link-derivation runs
ReplaceData ==
    { <<>>,
      <<Item(<<"website", "links">>, Str(<<"[", "]">>))>>,
      <<Item(<<"website", "links">>, Str(<<"x">>))>> \o GoodPair(2),
      GoodPair(3),
      <<Item(<<"name">>, NameB)>> \o DefectPair(1, "no url") }

DataSet ==
    { Field(<<"name">>, n) \o Field(<<"primary", "hashtag">>, h) \o l :
        n \in {Absent, None, NameA, NameB},
        h \in {Absent, None, Hashtag},
        l \in SmallLinks }

PartnerIds == 1..MaxPartners

-----------------------------------------------------------------------------
(* Specifications *)

Init ==
    /\ partners = <<>>
    /\ nextId = 1
    /\ result = NoCall
    /\ input = <<>>
    /\ http = NoRequest
    /\ req = NoDetails
    /\ tasks = NoTasks

\* the partner service, called with any request in any order
Next ==
    \/ \E data \in DataSet, other \in {"none"} \cup OtherViolations :
            CreatePartner(data, other)
    \/ \E id \in PartnerIds, data \in DataSet, other \in {"none"} \cup OtherViolations :
            UpdatePartner(id, data, other)
    \/ \E id \in PartnerIds : DeletePartner(id)

Spec == Init /\ [][Next]_vars

\* link derivation: one request, handed to create_partner and then to
\* update_partner, with updates by a few other requests in between
InitLinks ==
    /\ partners = <<>>
    /\ nextId = 1
    /\ result = NoCall
    /\ input \in WideData
    /\ http = NoRequest
    /\ req = NoDetails
    /\ tasks = NoTasks

LinksCreate == result.op = "none" /\ CreatePartner(input, "none")

LinksUpdate == \E id \in DOMAIN partners : UpdatePartner(id, input, "none")

LinksReplace == \E id \in DOMAIN partners, data \in ReplaceData : UpdatePartner(id, data, "none")

NextLinks == LinksCreate \/ LinksUpdate \/ LinksReplace

SpecLinks == InitLinks /\ [][NextLinks]_vars

\* the task-action handlers, each request with any outcome of its services;
\* the tasks table is left out of these runs
NextActions ==
    \/ \E u \in Users, p \in ProjectIds, ok \in BOOLEAN, out \in MappingOutcomes, m \in Messages :
            \/ LockForMapping(u, p, ok, out, m) /\ Carried({}, "", m)
            \/ UndoLastAction(u, p, out, m) /\ Carried({}, "", m)
            \/ \E b \in BodyUsers :
                \/ StopMapping(u, p, ok, out, m, b) /\ Carried({}, b, m)
                \/ UnlockAfterMapping(u, p, ok, out, m, b) /\ Carried({}, b, m)
                \/ ExtendLock(u, p, ok, out, m, b) /\ Carried({}, b, m)
    \/ \E u \in Users, p \in ProjectIds, ok \in BOOLEAN, out \in ValidatorOutcomes, m \in Messages,
          b \in BodyUsers :
            \/ LockForValidation(u, p, ok, out, m, b) /\ Carried({}, b, m)
            \/ StopValidation(u, p, ok, out, m, b) /\ Carried({}, b, m)
            \/ UnlockAfterValidation(u, p, ok, out, m, b) /\ Carried({}, b, m)
    \/ \E u \in Users, p \in ProjectIds, ok \in BOOLEAN, out \in SplitOutcomes, m \in Messages :
            SplitTask(u, p, ok, out, m) /\ Carried({}, "", m)
    \/ \E u \in Users, p \in ProjectIds, dto \in RevertDtoSteps, out \in ValidatorOutcomes,
          m \in Messages :
            ResetByUser(u, p, dto, out, m) /\ Carried({}, "", m)
    \/ \E u \in Users, p \in ProjectIds, permitted \in BOOLEAN, out \in BulkOutcomes :
            \/ MapAll(u, p, permitted, out) /\ Carried({}, "", <<>>)
            \/ ValidateAll(u, p, permitted, out) /\ Carried({}, "", <<>>)
            \/ InvalidateAll(u, p, permitted, out) /\ Carried({}, "", <<>>)
            \/ ResetAllBadImagery(u, p, permitted, out) /\ Carried({}, "", <<>>)
            \/ ResetAll(u, p, permitted, out) /\ Carried({}, "", <<>>)

SpecActions == Init /\ [][NextActions]_vars

\* the handlers that lock, unlock and reset tasks, run on the tasks table:
\* what the delegated operation returns or raises is what the table makes of it
InitTasks ==
    /\ partners = <<>>
    /\ nextId = 1
    /\ result = NoCall
    /\ input = <<>>
    /\ http = NoRequest
    /\ req = NoDetails
    /\ tasks = AllReady

TaskLockForMapping ==
    \E u \in Users, p \in Projects, ok \in BOOLEAN : \E t \in TasksOf(p) :
        LET r == MappingService_lock_task_for_mapping(tasks, u, p, t)
        IN  LockForMapping(u, p, ok, r.out, r.msg) /\ OnTasks(p, {t}, "", r.msg, "")

TaskUnlockAfterMapping ==
    \E u \in Users, p \in Projects, status \in {"MAPPED", "BADIMAGERY", "READY"} :
      \E t \in TasksOf(p) :
        LET r == MappingService_unlock_task_after_mapping(tasks, u, p, t, status)
        IN  UnlockAfterMapping(u, p, TRUE, r.out, r.msg, "") /\ OnTasks(p, {t}, "", r.msg, status)

TaskLockForValidation ==
    \E u \in Users, p \in Projects, ok \in BOOLEAN : \E ts \in (SUBSET TasksOf(p)) \ {{}} :
        LET r == ValidatorService_lock_tasks_for_validation(tasks, u, p, ts)
        IN  LockForValidation(u, p, ok, r.out, r.msg, "") /\ OnTasks(p, ts, "", r.msg, "")

TaskResetAllBadImagery ==
    \E u \in Users, p \in ProjectIds, permitted \in BOOLEAN :
        ResetAllBadImagery(u, p, permitted, "ok") /\ OnTasks(p, {}, "", <<>>, "")

NextTasks ==
    \/ TaskLockForMapping
    \/ TaskUnlockAfterMapping
    \/ TaskLockForValidation
    \/ TaskResetAllBadImagery

SpecTasks == InitTasks /\ [][NextTasks]_vars

-----------------------------------------------------------------------------
(* Properties of PartnerService *)

Writes == {"create_partner", "update_partner"}

\* the subcode a caller reads off an error: str(e).split("-")[0]
SubCode(msg) == Split(msg, "-")[1]

\* the list in the website_links column of partner id
StoredLinks(id) == json_loads(partners[id].website_links)

\* C1: when the database rejects the write of create_partner or update_partner
\* with a uniqueness violation, the call raises an error whose subcode (the
\* text before the first hyphen) is NameExists, and returns no partner.
C1_UniqueViolationIsNameExists ==
    (result.op \in Writes /\ result.violation = "UniqueViolation")
        => /\ result.outcome = "raise"
           /\ Len(Split(result.msg, "-")) >= 2
           /\ SubCode(result.msg) = <<"NameExists">>

C1_Witness ==
    /\ result.op = "create_partner"
    /\ result.violation = "UniqueViolation"
    /\ result.outcome = "raise"
    /\ \E p \in DOMAIN partners : partners[p].name = DictGet(result.data, <<"name">>)

\* C2: when the database rejects the write with a not-null violation, the call
\* raises an error whose subcode is NullName; and an error with subcode
\* NullName is never the answer to a uniqueness violation.
C2_NotNullViolationIsNullName ==
    result.op \in Writes
        => /\ result.violation = "NotNullViolation"
                => /\ result.outcome = "raise"
                   /\ Len(Split(result.msg, "-")) >= 2
                   /\ SubCode(result.msg) = <<"NullName">>
           /\ (result.exc = "ValueError" /\ SubCode(result.msg) = <<"NullName">>)
                => result.violation # "UniqueViolation"

C2_Witness ==
    /\ result.op = "update_partner"
    /\ DictHas(result.data, <<"name">>)
    /\ DictItem(result.data, <<"name">>) = None
    /\ result.violation = "NotNullViolation"
    /\ SubCode(result.msg) = <<"NullName">>

\* C3: every integrity violation caught by create_partner or update_partner is
\* re-raised as an error in Code-Message format; the call never returns
\* normally after one.
C3_EveryViolationRaises ==
    (result.op \in Writes /\ result.violation # "none")
        => /\ result.outcome = "raise"
           /\ Len(Split(result.msg, "-")) >= 2

\* C4: no two stored partners have the same name.
C4_NamesUnique ==
    \A p, q \in DOMAIN partners : p # q => partners[p].name # partners[q].name

C4_Witness ==
    /\ Cardinality(DOMAIN partners) >= 2
    /\ result.op = "update_partner"
    /\ result.violation = "UniqueViolation"

PresentNonEmpty(data, key) ==
    /\ DictHas(data, key)
    /\ DictItem(data, key).type = "str"
    /\ DictItem(data, key).val # <<>>

\* the indices i in 1..5 whose name_i and url_i are both present and non-empty
CompleteIdx(data) ==
    { i \in 1..5 : /\ PresentNonEmpty(data, <<"name", IdxStr(i)>>)
                   /\ PresentNonEmpty(data, <<"url", IdxStr(i)>>) }

\* C5: the website_links list create_partner stores holds exactly the pairs
\* (name_i, url_i), i in 1..5, with both name_i and url_i present and
\* non-empty, in increasing order of i.
C5_CreateKeepsCompletePairs ==
    (result.op = "create_partner" /\ result.outcome = "return" /\ result.id \in DOMAIN partners)
        => LET l == StoredLinks(result.id)
               I == CompleteIdx(result.data)
           IN  /\ Len(l) = Cardinality(I)
               /\ \A i \in I :
                    l[Cardinality({j \in I : j <= i})] =
                        [name |-> DictItem(result.data, <<"name", IdxStr(i)>>),
                         url |-> DictItem(result.data, <<"url", IdxStr(i)>>)]

C5_Witness ==
    /\ result.op = "create_partner"
    /\ result.id \in DOMAIN partners
    /\ Len(StoredLinks(result.id)) >= 2
    /\ \E i \in 1..4 :
        /\ DictHas(result.data, <<"name", IdxStr(i)>>)
        /\ i \notin CompleteIdx(result.data)
        /\ i + 1 \in CompleteIdx(result.data)

\* C6: the website_links list update_partner stores holds only pairs whose
\* name and URL are both present and non-empty (the name not blank).
C6_UpdateKeepsOnlyCompletePairs ==
    (result.op = "update_partner" /\ result.outcome = "return" /\ result.id \in DOMAIN partners)
        => \A k \in 1..Len(StoredLinks(result.id)) :
            LET pair == StoredLinks(result.id)[k]
            IN  /\ pair.name.type = "str" /\ Strip(pair.name.val) # <<>>
                /\ pair.url.type = "str" /\ pair.url.val # <<>>

\* C7: after a successful create_partner or update_partner the stored
\* website_links list has at most five entries.
C7_AtMostFiveLinks ==
    (result.op \in Writes /\ result.outcome = "return" /\ result.id \in DOMAIN partners)
        => Len(StoredLinks(result.id)) <= 5

\* C17: delete_partner removes the partner with the given id and returns a
\* 200 success result when there is one; otherwise it returns a 400 error
\* result and leaves the table as it was; no other partner is ever removed.
C17_DeleteRemovesOnlyThatPartner ==
    [][ result'.op = "delete_partner"
        => /\ result'.outcome = "return"
           /\ result'.id \in DOMAIN partners
                => /\ result'.value = <<"Success", 200>>
                   /\ DOMAIN partners' = DOMAIN partners \ {result'.id}
           /\ result'.id \notin DOMAIN partners
                => /\ result'.value = <<"Error", 400>>
                   /\ partners' = partners
           /\ \A p \in DOMAIN partners \ {result'.id} :
                p \in DOMAIN partners' /\ partners'[p] = partners[p] ]_vars

C17_Witness ==
    /\ result.op = "delete_partner"
    /\ result.value = <<"Success", 200>>
    /\ result.id \notin DOMAIN partners
    /\ DOMAIN partners # {}

HasNameKey(data) == \E j \in 1..Len(data) : Len(data[j].k) >= 2 /\ data[j].k[1] = "name"

\* C19: after update_partner the stored website_links is a list all of whose
\* pairs come from a name_N key of this call's data and its url_N key; it is
\* empty when the data has no name_N key, and the column holds the encoding
\* of that list whatever website_links value the data carries.
C19_UpdateReplacesLinks ==
    (result.op = "update_partner" /\ result.outcome = "return" /\ result.id \in DOMAIN partners)
        => /\ partners[result.id].website_links = json_dumps(StoredLinks(result.id))
           /\ ~HasNameKey(result.data) => StoredLinks(result.id) = <<>>
           /\ \A k \in 1..Len(StoredLinks(result.id)) :
                \E j \in 1..Len(result.data) :
                    /\ Len(result.data[j].k) >= 2 /\ result.data[j].k[1] = "name"
                    /\ result.data[j].v = StoredLinks(result.id)[k].name
                    /\ DictHas(result.data, <<"url", result.data[j].k[2]>>)
                    /\ DictItem(result.data, <<"url", result.data[j].k[2]>>)
                            = StoredLinks(result.id)[k].url

C19_Witness ==
    /\ result.op = "update_partner"
    /\ result.outcome = "return"
    /\ DictHas(result.data, <<"website", "links">>)
    /\ ~HasNameKey(result.data)
    /\ CompleteIdx(input) # {}
    /\ StoredLinks(result.id) = <<>>

\* C20: a create_partner call that fails with NameExists or NullName leaves
\* the partners table, and so what get_partner_by_id and get_all_partners
\* return, as it was.
C20_FailedCreateChangesNothing ==
    [][ ( /\ result'.op = "create_partner"
          /\ result'.outcome = "raise"
          /\ SubCode(result'.msg) \in {<<"NameExists">>, <<"NullName">>} )
        => partners' = partners ]_vars

C20_Witness ==
    /\ result.op = "create_partner"
    /\ result.outcome = "raise"
    /\ SubCode(result.msg) = <<"NullName">>
    /\ DOMAIN partners # {}

-----------------------------------------------------------------------------
(* Properties of the task-action handlers *)

BulkHandlers == {"map-all", "validate-all", "invalidate-all", "reset-all",
                 "reset-all-badimagery"}

DtoHandlers == {"lock-for-mapping", "stop-mapping", "unlock-after-mapping",
                "lock-for-validation", "stop-validation", "unlock-after-validation",
                "split", "extend", "reset-by-user"}

\* the operation each handler delegates to
Delegate(handler) ==
    CASE handler = "lock-for-mapping" -> "MappingService.lock_task_for_mapping"
      [] handler = "stop-mapping" -> "MappingService.stop_mapping_task"
      [] handler = "unlock-after-mapping" -> "MappingService.unlock_task_after_mapping"
      [] handler = "undo-last-action" -> "MappingService.undo_mapping"
      [] handler = "lock-for-validation" -> "ValidatorService.lock_tasks_for_validation"
      [] handler = "stop-validation" -> "ValidatorService.stop_validating_tasks"
      [] handler = "unlock-after-validation" -> "ValidatorService.unlock_tasks_after_validation"
      [] handler = "map-all" -> "MappingService.map_all_tasks"
      [] handler = "validate-all" -> "ValidatorService.validate_all_tasks"
      [] handler = "invalidate-all" -> "ValidatorService.invalidate_all_tasks"
      [] handler = "reset-all-badimagery" -> "MappingService.reset_all_badimagery"
      [] handler = "reset-all" -> "ProjectAdminService.reset_all_tasks"
      [] handler = "split" -> "SplitService.split_task"
      [] handler = "extend" -> "MappingService.extend_task_lock_time"
      [] handler = "reset-by-user" -> "ValidatorService.revert_user_tasks"

PermissionFn == "ProjectAdminService.is_user_action_permitted_on_project"

DtoFailed == http.dto \notin {"ok", "none"}

\* C8: in each bulk admin action the permission check is the first call; when
\* it reports the user is not permitted the response is 403 with SubCode
\* UserPermissionError and the bulk operation is not invoked.
C8_PermissionBeforeBulk ==
    http.handler \in BulkHandlers
        => /\ Len(http.calls) >= 1
           /\ http.calls[1].fn = PermissionFn
           /\ http.calls[1].by = http.user
           /\ \A k \in 1..Len(http.calls) :
                http.calls[k].fn = Delegate(http.handler)
                    => k > 1 /\ http.calls[1].ret = "True"
           /\ http.calls[1].ret = "False"
                => /\ http.kind = "response" /\ http.status = 403
                   /\ http.subcode = <<"UserPermissionError">>
                   /\ Len(http.calls) = 1

C8_Witness ==
    /\ http.handler = "reset-all-badimagery"
    /\ http.calls[1].ret = "False"
    /\ http.status = 403
    /\ http.subcode = <<"UserPermissionError">>

\* C9 as stated: when building or validating the DTO fails the handler
\* responds 400 with SubCode InvalidData and has called nothing on the
\* service layer.
C9_NoCallOnInvalidData ==
    (http.handler \in DtoHandlers /\ DtoFailed)
        => /\ http.kind = "response" /\ http.status = 400
           /\ http.subcode = <<"InvalidData">>
           /\ http.calls = <<>>

\* C9, amended: when building or validating the DTO fails the handler
\* responds 400 with SubCode InvalidData; it has called neither
\* ProjectService.exists nor the operation it delegates to, and the only call
\* it can have made is reset-by-user's lookup of the named user, which is a
\* step of building that DTO.
C9_InvalidDataBeforeDelegation ==
    (http.handler \in DtoHandlers /\ DtoFailed)
        => /\ http.kind = "response" /\ http.status = 400
           /\ http.subcode = <<"InvalidData">>
           /\ \A k \in 1..Len(http.calls) :
                /\ http.handler = "reset-by-user"
                /\ http.calls[k].fn = "UserService.get_user_by_username"

C9_Witness ==
    /\ http.handler = "reset-by-user"
    /\ http.dto = "validate"
    /\ http.status = 400
    /\ Len(http.calls) = 1

\* C10: in every handler that delegates to MappingService, ValidatorService or
\* SplitService after validating a DTO, ProjectService.exists is called, and
\* has answered that the project exists, before the delegated operation.
C10_ExistsBeforeDelegation ==
    http.handler \in DtoHandlers
        => \A k \in 1..Len(http.calls) :
            http.calls[k].fn = Delegate(http.handler)
                => \E j \in 1..(k - 1) :
                    /\ http.calls[j].fn = "ProjectService.exists"
                    /\ http.calls[j].ret = "ok"

DomainErrors == {"MappingServiceError", "ValidatorServiceError", "SplitServiceError",
                 "InvalidGeoJson"}

\* what the delegated operation of the last request returned or raised ("":
\* the handler did not get to it)
Delegated ==
    IF \E k \in 1..Len(http.calls) : http.calls[k].fn = Delegate(http.handler)
    THEN http.calls[CHOOSE k \in 1..Len(http.calls) :
                        http.calls[k].fn = Delegate(http.handler)].ret
    ELSE ""

\* the place of the first hyphen of a message (0: it has none)
FirstHyphen(m) ==
    IF \E j \in 1..Len(m) : m[j] = "-"
    THEN CHOOSE j \in 1..Len(m) : m[j] = "-" /\ \A i \in 1..(j - 1) : m[i] # "-"
    ELSE 0

\* C11: a domain error 'Code-Message' raised by the delegated service is
\* answered 403 with SubCode the text before the first hyphen and Error the
\* whole text after the first hyphen.
C11_SplitAtFirstHyphen ==
    (Delegated \in DomainErrors /\ FirstHyphen(req.msg) > 0)
        => /\ http.kind = "response" /\ http.status = 403
           /\ http.subcode = SubSeq(req.msg, 1, FirstHyphen(req.msg) - 1)
           /\ http.error = SubSeq(req.msg, FirstHyphen(req.msg) + 1, Len(req.msg))

\* C12: in lock-for-mapping and lock-for-validation a license error of the
\* service is answered 409 with SubCode UserLicenseError.
C12_LicenseErrorIs409 ==
    (http.handler \in {"lock-for-mapping", "lock-for-validation"}
        /\ Delegated = "UserLicenseError")
        => /\ http.kind = "response" /\ http.status = 409
           /\ http.subcode = <<"UserLicenseError">>

C12_Witness ==
    /\ http.handler = "lock-for-validation"
    /\ Delegated = "UserLicenseError"
    /\ http.status = 409

\* C13: in every task-action handler an unexpected exception of the service
\* step is answered 500 with SubCode InternalServerError and does not leave
\* the handler.
C13_UnexpectedIs500 ==
    Delegated = "Exception"
        => /\ http.kind = "response" /\ http.status = 500
           /\ http.subcode = <<"InternalServerError">>

MapperLevelFn == "UserService.check_and_update_mapper_level"

\* C16: unlock-after-mapping refreshes the mapper level of the authenticated
\* user exactly once, as its last call, whenever the DTO was valid, whatever
\* the service step did; and not at all when the DTO was invalid.
C16_MapperLevelRefreshedOnce ==
    http.handler = "unlock-after-mapping"
        => LET n == Cardinality({k \in 1..Len(http.calls) : http.calls[k].fn = MapperLevelFn})
           IN  /\ http.dto # "ok" => n = 0 /\ http.status = 400
               /\ http.dto = "ok"
                    => /\ n = 1
                       /\ http.calls[Len(http.calls)] = CallOf(MapperLevelFn, http.user, "ok")

C16_Witness ==
    /\ http.handler = "unlock-after-mapping"
    /\ Delegated = "Exception"
    /\ http.status = 500
    /\ http.calls[Len(http.calls)].fn = MapperLevelFn

\* C18: the acting user handed to the service layer is the authenticated user
\* of the request, whatever user id the request body carries.
C18_ActingUserIsAuthenticated ==
    \A k \in 1..Len(http.calls) :
        /\ http.calls[k].by \in {"", http.user}
        /\ http.calls[k].fn = Delegate(http.handler) => http.calls[k].by = http.user

C18_Witness ==
    /\ http.handler = "unlock-after-validation"
    /\ req.body_user \notin {"", http.user}
    /\ Delegated = "ok"
    /\ \E k \in 1..Len(http.calls) :
        http.calls[k].fn = Delegate(http.handler) /\ http.calls[k].by = http.user

-----------------------------------------------------------------------------
(* Properties of the handlers on the tasks table *)

LockHandlers == {"lock-for-mapping", "lock-for-validation"}

\* C14: a task has a lock holder exactly while it is locked, and a lock
\* request that reaches the service for a task locked by another user is
\* answered 403 and leaves that task, its holder included, as it was.
C14_LockIsExclusive ==
    [][ /\ \A k \in DOMAIN tasks' :
            (tasks'[k].status \in LockedStatuses) = (tasks'[k].locked_by \in Users)
        /\ \A k \in DOMAIN tasks :
            ( /\ http'.handler \in LockHandlers
              /\ Delegated' # ""
              /\ k[1] = http'.project /\ k[2] \in req'.tasks
              /\ tasks[k].status \in LockedStatuses
              /\ tasks[k].locked_by # http'.user )
            => /\ http'.kind = "response" /\ http'.status = 403
               /\ tasks'[k] = tasks[k] ]_vars

C14_Witness ==
    /\ http.handler = "lock-for-validation"
    /\ http.status = 403
    /\ \E k \in DOMAIN tasks :
        /\ k[1] = http.project /\ k[2] \in req.tasks
        /\ tasks[k].status = "LOCKED_FOR_MAPPING"
        /\ tasks[k].locked_by \in Users \ {http.user}

\* C15: a reset-all-badimagery request of a permitted user sets the
\* BADIMAGERY tasks of its project to READY and changes the status of no
\* other task.
C15_OnlyBadImageryReset ==
    [][ ( /\ http'.handler = "reset-all-badimagery"
          /\ http'.calls[1].ret = "True" )
        => \A k \in DOMAIN tasks :
            tasks'[k].status =
                IF k[1] = http'.project /\ tasks[k].status = "BADIMAGERY"
                THEN "READY" ELSE tasks[k].status ]_vars

C15_Witness ==
    /\ http.handler = "reset-all-badimagery"
    /\ http.status = 200
    /\ \E k \in DOMAIN tasks : k[1] = http.project /\ tasks[k].status = "MAPPED"
    /\ \E k \in DOMAIN tasks : k[1] # http.project /\ tasks[k].status = "BADIMAGERY"

====
